---- MODULE Spec2Model ----
(***************************************************************************)
(* Bridge traversal and detour analysis (Traversals_121820.py followed by  *)
(* Detours_121820.py).  The traversal script solves, per direction, the    *)
(* closest-facility route of every business, records the bridges on each   *)
(* route and aggregates them per bridge.  The detour script re-solves each *)
(* (business, bridge) pair with the bridge as a point barrier and derives  *)
(* the detour metrics.                                                     *)
(*                                                                         *)
(* Numeric field values are exact rationals <<num, den>> with den > 0; a   *)
(* null field is NULL == <<0, 0>>.  Floating point rounding is not         *)
(* modelled.  The road network is an undirected graph whose vertices lie   *)
(* on a line, two miles apart; businesses, bridges and destinations sit on *)
(* vertices; a point barrier on a bridge removes its vertex.               *)
(***************************************************************************)
EXTENDS Integers, Sequences, FiniteSets, TLC

\* ---------------------------------------------------------------- bounds
NumNodes == 4
NumBus == 2
MaxFailures == 1

\* ------------------------------------------------------- program constants
cutoff == 1
power == 1
FeetPerMile == 5280

\* ------------------------------------------------------------- rationals
Abs(n) == IF n < 0 THEN -n ELSE n

RECURSIVE GCD(_, _)
GCD(a, b) == IF b = 0 THEN a ELSE GCD(b, a % b)

NULL == <<0, 0>>
IsNull(v) == v[2] = 0

Rat(n, d) ==
  LET g == GCD(Abs(n), Abs(d))
      s == IF d < 0 THEN -1 ELSE 1
  IN  <<(s * n) \div g, (s * d) \div g>>

RInt(n) == <<n, 1>>
RAdd(a, b) == Rat(a[1] * b[2] + b[1] * a[2], a[2] * b[2])
RSub(a, b) == Rat(a[1] * b[2] - b[1] * a[2], a[2] * b[2])
RMul(a, b) == Rat(a[1] * b[1], a[2] * b[2])
RDiv(a, b) == Rat(a[1] * b[2], a[2] * b[1])
RLeq(a, b) == a[1] * b[2] <= b[1] * a[2]

RECURSIVE RPow(_, _)
RPow(a, k) == IF k = 0 THEN RInt(1) ELSE RMul(a, RPow(a, k - 1))

\* Field calculator (CalculateField_management, PYTHON3): the expression is
\* evaluated row by row; a row whose evaluation raises (a None operand, a
\* division by zero) is set to null and the tool goes on to the next row.
PySub(a, b) == IF IsNull(a) \/ IsNull(b) THEN NULL ELSE RSub(a, b)
PyMul(a, b) == IF IsNull(a) \/ IsNull(b) THEN NULL ELSE RMul(a, b)
PyDiv(a, b) ==
  IF IsNull(a) \/ IsNull(b) THEN NULL
  ELSE IF b[1] = 0 THEN NULL
  ELSE RDiv(a, b)
PyPow(a, k) == IF IsNull(a) THEN NULL ELSE RPow(a, k)

\* --------------------------------------------------------------- inputs
Nodes == 1 .. NumNodes

\* ListFeatureClasses(feature_dataset=destinations): one class per direction
dests == <<"E", "W">>
Dirs == {dests[i] : i \in 1 .. Len(dests)}
DestNodes(d) == IF d = "E" THEN {NumNodes - 1, NumNodes} ELSE {1}

\* X coordinate of a vertex, in feet (map units)
NodeX(v) == (v - 1) * 2 * FeetPerMile

\* businesses: OBJECTID b sits on vertex BusNode[b]
BusIds == 1 .. NumBus
BusNode == [b \in BusIds |-> b]
RawChoices == {20, 7}

\* Weight_Restricted_Bridges, in OBJECTID order
BridgeNbr == <<"B1", "B2">>
BridgeNode == <<2, 3>>
BridgeIds == {BridgeNbr[i] : i \in 1 .. Len(BridgeNbr)}
NullText == "<Null>"

\* candidate road segments: neighbouring vertices (cost 1) and one-vertex
\* skips (one cost for all skips of a network)
CandEdges == {{i, j} : i \in Nodes, j \in Nodes} \ {{i} : i \in Nodes}
BandEdges == {e \in CandEdges : \A i \in e, j \in e : Abs(i - j) <= 2}
IsSkip(e) == \E i \in e, j \in e : Abs(i - j) = 2
SkipCosts == {1, 5}
Networks ==
  {[edges |-> E, skip |-> sc] : E \in SUBSET BandEdges, sc \in SkipCosts}

EdgeCost(g, e) == IF IsSkip(e) THEN g.skip ELSE 1

\* --------------------------------------------------- closest facility solver
Last(s) == s[Len(s)]
SeqNodes(p) == {p[i] : i \in 1 .. Len(p)}

\* one-edge extensions of the simple paths P that stay clear of the barriers
Extend(g, barred, P) ==
  UNION {{Append(p, v) : v \in {w \in Nodes : /\ w \notin barred
                                              /\ w \notin SeqNodes(p)
                                              /\ {Last(p), w} \in g.edges}}
         : p \in P}

RECURSIVE PathsFrom(_, _, _, _)
PathsFrom(g, barred, P, k) ==
  IF k = 0 \/ P = {} THEN P
  ELSE P \cup PathsFrom(g, barred, Extend(g, barred, P), k - 1)

RECURSIVE PathCost(_, _)
PathCost(g, p) ==
  IF Len(p) <= 1 THEN 0
  ELSE EdgeCost(g, {p[1], p[2]}) + PathCost(g, Tail(p))

\* all simple paths from origin o to a facility in D avoiding the barriers
RoutesTo(g, o, D, barred) ==
  IF o \in barred THEN {}
  ELSE {p \in PathsFrom(g, barred, {<<o>>}, NumNodes) : Last(p) \in D}

\* the routes the solver may return: those of least Total_Length
BestRoutes(g, o, D, barred) ==
  LET R == RoutesTo(g, o, D, barred)
  IN  {p \in R : \A q \in R : PathCost(g, p) <= PathCost(g, q)}

\* ------------------------------------------------------------ table helpers
Range(s) == {s[i] : i \in 1 .. Len(s)}

RECURSIVE Flatten(_)
Flatten(ss) == IF ss = <<>> THEN <<>> ELSE Head(ss) \o Flatten(Tail(ss))

MaxOf(S) == CHOOSE m \in S : \A k \in S : k <= m

\* Python "+" over field values: a None operand raises, the row becomes null
PyAdd(a, b) == IF IsNull(a) \/ IsNull(b) THEN NULL ELSE RAdd(a, b)

RECURSIVE PySum(_)
PySum(vals) ==
  IF vals = <<>> THEN RInt(0) ELSE PyAdd(Head(vals), PySum(Tail(vals)))

\* Frequency_analysis summary: the sum of the non-null values of a group,
\* null when the group has no non-null value
RECURSIVE SumNonNull(_)
SumNonNull(vals) ==
  IF vals = <<>> THEN NULL
  ELSE LET rest == SumNonNull(Tail(vals))
       IN  IF IsNull(Head(vals)) THEN rest
           ELSE IF IsNull(rest) THEN Head(vals)
           ELSE RAdd(Head(vals), rest)

Column(rows, f) == [i \in 1 .. Len(rows) |-> rows[i][f]]

\* Frequency_analysis(table, out, BRDG_NBR, summary fields): one output row
\* per distinct BRDG_NBR with FREQUENCY and the sums of the summary fields
Frequency(rows, fields) ==
  [b \in {r.BRDG_NBR : r \in Range(rows)} |->
     LET grp == SelectSeq(rows, LAMBDA r : r.BRDG_NBR = b)
     IN  [FREQUENCY |-> RInt(Len(grp)),
          sums |-> [f \in fields |-> SumNonNull(Column(grp, f))]]]

\* field names are token sequences ("E_TRAV_BUS" is <<"E","TRAV","BUS">>);
\* a ListFields wildcard is a token pattern: "*" any run of tokens, "?" one
RECURSIVE Glob(_, _)
Glob(pat, name) ==
  IF pat = <<>> THEN name = <<>>
  ELSE IF Head(pat) = "*"
       THEN Glob(Tail(pat), name) \/ (name # <<>> /\ Glob(pat, Tail(name)))
  ELSE IF Head(pat) = "?" THEN name # <<>> /\ Glob(Tail(pat), Tail(name))
  ELSE name # <<>> /\ Head(name) = Head(pat) /\ Glob(Tail(pat), Tail(name))

ListFields(attrs, pat) == {f \in DOMAIN attrs : Glob(pat, f)}

\* ------------------------------------------------------------------ state
VARIABLES
  pc,               \* position in the two scripts
  net,              \* Network/Network_ND
  businesses,       \* businesses feature class
  bridges,          \* Weight_Restricted_Bridges feature class
  di,               \* index into dests of the running "for dest in dests"
  n,                \* traversal script's closest-facility counter
  cfData,           \* ClosestFacility<k>/CFRoutes<k> datasets of the workspace
  routesBridgesSJ,  \* routesBridgesSJ_<dest>
  Bridges_by_Bus,   \* Bridges_by_Bus_<dest>
  FreqTable,        \* <dest>_FreqTable
  detours,          \* detours_<dest>
  busPairs,         \* (business, bridge) pairs in busDict iteration order
  pi,               \* index into busPairs of the next pair
  key,              \* detour script's "key"
  z,                \* detour script's "z"
  x,                \* detour script's completed-row counter
  totalRows,        \* detour script's remaining-row counter
  failures,         \* faults so far: exceptions raised inside the try block
                    \* and ends of the process between two directions
  solves,           \* barred solves run so far, as <<dest, business, bridge>>
  Detours_by_Bridge,\* Detours_by_Bridge frequency table
  naLayer,          \* detour script's closest facility layers, by <dest>_CF
  restarted,        \* the detour script has been started again
  prior             \* detours_<dest> of the directions that were finished
                    \* when the detour script was last started again

vars ==
  <<pc, net, businesses, bridges, di, n, cfData, routesBridgesSJ,
    Bridges_by_Bus, FreqTable, detours, busPairs, pi, key, z, x, totalRows,
    failures, solves, Detours_by_Bridge, naLayer, restarted, prior>>

travVars == <<n, cfData, routesBridgesSJ, Bridges_by_Bus, FreqTable>>
detVars ==
  <<detours, busPairs, pi, key, z, x, totalRows, failures, solves,
    Detours_by_Bridge, naLayer, restarted, prior>>

NoAttrs == [f \in {} |-> NULL]
Undefined == -1
UndefinedKey == <<Undefined, NullText>>

\* a closest facility layer with nothing loaded
EmptyLayer == [facilities |-> {}, incidents |-> <<>>, barriers |-> {}]

Init ==
  /\ pc = "trav_truckint"
  /\ net \in Networks
  /\ \E raw \in [BusIds -> RawChoices] :
       businesses =
         [b \in BusIds |->
            [OBJECTID |-> b, node |-> BusNode[b],
             POINT_X |-> RInt(NodeX(BusNode[b])),
             Truck_Int_Raw |-> RInt(raw[b]), Truck_Int |-> NULL]]
  /\ bridges =
       [i \in 1 .. Len(BridgeNbr) |->
          [BRDG_NBR |-> BridgeNbr[i], node |-> BridgeNode[i],
           X_COORD |-> RInt(NodeX(BridgeNode[i])), attrs |-> NoAttrs]]
  /\ di = 1
  /\ n = 1
  /\ cfData = [k \in {} |-> <<>>]
  /\ routesBridgesSJ = [d \in Dirs |-> <<>>]
  /\ Bridges_by_Bus = [d \in Dirs |-> <<>>]
  /\ FreqTable = [d \in Dirs |-> [b \in {} |-> NULL]]
  /\ detours = [d \in Dirs |-> <<>>]
  /\ busPairs = <<>>
  /\ pi = 1
  /\ key = UndefinedKey
  /\ z = Undefined
  /\ x = 0
  /\ totalRows = 0
  /\ failures = 0
  /\ solves = <<>>
  /\ Detours_by_Bridge = [b \in {} |-> NULL]
  /\ naLayer = [d \in Dirs |-> EmptyLayer]
  /\ restarted = FALSE
  /\ prior = [d \in Dirs |-> <<>>]

dest == dests[di]

\* ----------------------------------------------------- traversal script
\* Truck_Int = Truck_Int_Raw / number of destination classes
\* mutant: the raw intensity is not divided
TruckIntExpUndivided(raw) == raw

TruckIntExp(raw) == PyDiv(raw, RInt(Len(dests)))

CalcTruckInt ==
  /\ pc = "trav_truckint"
  /\ businesses' =
       [b \in DOMAIN businesses |->
          [businesses[b] EXCEPT !.Truck_Int = TruckIntExp(businesses[b].Truck_Int_Raw)]]
  /\ pc' = "trav_solve"
  /\ UNCHANGED <<net, bridges, di, travVars, detVars>>

\* the name MakeClosestFacilityLayer gives the next solution dataset
NextCF(ds) == IF ds = {} THEN 1 ELSE MaxOf(ds) + 1

BestOrNone(g, o, D, barred) ==
  LET B == BestRoutes(g, o, D, barred) IN IF B = {} THEN {<<>>} ELSE B

\* mutant: the solve minimises the number of segments, not their Length
RouteChoicesFewestSegments(g, D) ==
  LET few(b) ==
        LET R == RoutesTo(g, BusNode[b], D, {})
        IN  IF R = {} THEN {<<>>}
            ELSE {p \in R : \A q \in R : Len(p) <= Len(q)}
  IN  {f \in [BusIds -> UNION {few(b) : b \in BusIds}] :
         \A b \in BusIds : f[b] \in few(b)}

\* one route per located incident: a choice among its least-cost routes
RouteChoices(g, D) ==
  {f \in [BusIds -> UNION {BestOrNone(g, BusNode[b], D, {}) : b \in BusIds}] :
     \A b \in BusIds : f[b] \in BestOrNone(g, BusNode[b], D, {})}

\* CFRoutes of a solved layer; an incident without a route has no row
CFRoutes(g, ids, f) ==
  LET all == [i \in 1 .. Len(ids) |->
                [IncidentID |-> ids[i],
                 Total_Length |-> RInt(PathCost(g, f[ids[i]])),
                 SHAPE |-> f[ids[i]]]]
  IN  SelectSeq(all, LAMBDA r : r.SHAPE # <<>>)

BaselineSolve ==
  /\ pc = "trav_solve"
  /\ \E f \in RouteChoices(net, DestNodes(dest)) :
       cfData' = (NextCF(DOMAIN cfData) :> CFRoutes(net, [i \in BusIds |-> i], f))
                 @@ cfData
  /\ pc' = "trav_sjoin"
  /\ UNCHANGED <<net, businesses, bridges, di, n, routesBridgesSJ,
                 Bridges_by_Bus, FreqTable, detVars>>

\* SpatialJoin_analysis(routes, bridges, JOIN_ONE_TO_MANY, KEEP_ALL,
\* INTERSECT, 5 feet): one row per (route feature, bridge feature) whose
\* bridge lies on the route; a route near no bridge keeps one row with nulls
SJRow(r, nbr, xc) ==
  [IncidentID |-> r.IncidentID, BRDG_NBR |-> nbr, X_COORD |-> xc,
   Total_Length |-> r.Total_Length, SHAPE |-> r.SHAPE]

\* mutant: the bridges are joined to the traversed segments, one match per
\* segment of the route
SJMatchesPerEdge(r, brs) ==
  Flatten([k \in 1 .. Len(r.SHAPE) - 1 |->
             SelectSeq(brs, LAMBDA br : br.node \in {r.SHAPE[k], r.SHAPE[k + 1]})])

SJMatches(r, brs) == SelectSeq(brs, LAMBDA br : br.node \in SeqNodes(r.SHAPE))

SJOfRoute(r, brs) ==
  LET m == SJMatches(r, brs)
  IN  IF m = <<>> THEN <<SJRow(r, NullText, NULL)>>
      ELSE [i \in 1 .. Len(m) |-> SJRow(r, m[i].BRDG_NBR, m[i].X_COORD)]

SpatialJoin(routes, brs) ==
  Flatten([i \in 1 .. Len(routes) |-> SJOfRoute(routes[i], brs)])

SpatialJoinStep ==
  /\ pc = "trav_sjoin"
  /\ n \in DOMAIN cfData
  /\ routesBridgesSJ' =
       [routesBridgesSJ EXCEPT ![dest] = SpatialJoin(cfData[n], bridges)]
  /\ pc' = "trav_insert"
  /\ UNCHANGED <<net, businesses, bridges, di, n, cfData, Bridges_by_Bus,
                 FreqTable, detVars>>

\* rows of routesBridgesSJ with "BRDG_NBR IS NOT NULL", written to the new
\* Bridges_by_Bus_<dest>; the joined and calculated fields start null
BridgeRow(r) ==
  [Business_ID |-> r.IncidentID, BRDG_NBR |-> r.BRDG_NBR,
   Bridge_X |-> r.X_COORD, Base_Length |-> r.Total_Length, SHAPE |-> r.SHAPE,
   Business_X |-> NULL, Truck_Int |-> NULL, BUS_TO_BRIDGE_MU |-> NULL,
   BUS_TO_BRIDGE_MI |-> NULL, Truck_Int_DW |-> NULL]

\* mutant: the search cursor has no where clause
WhereAny(sj) == sj

WhereBridgeNotNull(sj) == SelectSeq(sj, LAMBDA r : r.BRDG_NBR # NullText)

InsertBridgeRows(sj) ==
  LET sel == WhereBridgeNotNull(sj)
  IN  [i \in 1 .. Len(sel) |-> BridgeRow(sel[i])]

\* JoinField(bridgeTable, Business_ID, businesses, OBJECTID, [X, Y, Truck_Int])
JoinBusiness(row, bus) ==
  IF \E b \in DOMAIN bus : bus[b].OBJECTID = row.Business_ID
  THEN LET b == CHOOSE c \in DOMAIN bus : bus[c].OBJECTID = row.Business_ID
       IN  [row EXCEPT !.Business_X = bus[b].POINT_X,
                       !.Truck_Int = bus[b].Truck_Int]
  ELSE row

CreateBridgeTable ==
  /\ pc = "trav_insert"
  /\ Bridges_by_Bus' =
       [Bridges_by_Bus EXCEPT ![dest] =
          LET ins == InsertBridgeRows(routesBridgesSJ[dest])
          IN  [i \in 1 .. Len(ins) |-> JoinBusiness(ins[i], businesses)]]
  /\ pc' = "trav_dist"
  /\ UNCHANGED <<net, businesses, bridges, di, n, cfData, routesBridgesSJ,
                 FreqTable, detVars>>

\* XYToLine GEODESIC length in map units, then miles
GeodesicLength(x1, x2) ==
  IF IsNull(x1) \/ IsNull(x2) THEN NULL
  ELSE LET dlt == RSub(x1, x2) IN <<Abs(dlt[1]), dlt[2]>>

MilesExp(mu) == PyDiv(mu, RInt(FeetPerMile))

CalcDistance ==
  /\ pc = "trav_dist"
  /\ Bridges_by_Bus' =
       [Bridges_by_Bus EXCEPT ![dest] =
          LET rows == Bridges_by_Bus[dest]
          IN  [i \in 1 .. Len(rows) |->
                 LET mu == GeodesicLength(rows[i].Business_X, rows[i].Bridge_X)
                 IN  [rows[i] EXCEPT !.BUS_TO_BRIDGE_MU = mu,
                                     !.BUS_TO_BRIDGE_MI = MilesExp(mu)]]]
  /\ pc' = "trav_dw"
  /\ UNCHANGED <<net, businesses, bridges, di, n, cfData, routesBridgesSJ,
                 FreqTable, detVars>>

\* mutant: a zero distance falls back to the unweighted intensity
TruckIntDWExpGuarded(ti, mi) ==
  IF ~IsNull(mi) /\ mi[1] = 0 THEN PyMul(ti, RInt(cutoff))
  ELSE PyDiv(PyMul(ti, RInt(cutoff)), PyPow(mi, power))

\* (!Truck_Int!*cutoff)/(!BUS_TO_BRIDGE_MI!**(power))
TruckIntDWExp(ti, mi) ==
  PyDiv(PyMul(ti, RInt(cutoff)), PyPow(mi, power))

CalcTruckIntDW ==
  /\ pc = "trav_dw"
  /\ Bridges_by_Bus' =
       [Bridges_by_Bus EXCEPT ![dest] =
          LET rows == Bridges_by_Bus[dest]
          IN  [i \in 1 .. Len(rows) |->
                 [rows[i] EXCEPT !.Truck_Int_DW =
                    TruckIntDWExp(rows[i].Truck_Int,
                                  rows[i].BUS_TO_BRIDGE_MI)]]]
  /\ pc' = "trav_freq"
  /\ UNCHANGED <<net, businesses, bridges, di, n, cfData, routesBridgesSJ,
                 FreqTable, detVars>>

\* per-direction field names of the bridge frequency table
TravBus(d) == <<d, "TRAV", "BUS">>
TravJob(d) == <<d, "TRAV", "JOB">>
TravJobDW(d) == <<d, "TRAV", "JOB", "DISTW">>

\* Frequency_analysis on BRDG_NBR with the FREQUENCY, Truck_Int and
\* Truck_Int_DW columns renamed for the direction
BridgeFreqTable(rows, d) ==
  LET ft == Frequency(rows, {"Truck_Int", "Truck_Int_DW"})
  IN  [b \in DOMAIN ft |->
         (TravBus(d) :> ft[b].FREQUENCY)
         @@ (TravJob(d) :> ft[b].sums["Truck_Int"])
         @@ (TravJobDW(d) :> ft[b].sums["Truck_Int_DW"])]

\* JoinField_management(target, key, table, key, fields) for one target row:
\* the fields are added; a row without a match gets nulls
JoinField(attrs, nbr, table, fields) ==
  [f \in fields |-> IF nbr \in DOMAIN table THEN table[nbr][f] ELSE NULL]
  @@ attrs

BridgeFrequencies ==
  /\ pc = "trav_freq"
  /\ LET ft == BridgeFreqTable(Bridges_by_Bus[dest], dest)
     IN  /\ FreqTable' = [FreqTable EXCEPT ![dest] = ft]
         /\ bridges' =
              [i \in DOMAIN bridges |->
                 [bridges[i] EXCEPT !.attrs =
                    JoinField(@, bridges[i].BRDG_NBR, ft,
                              {TravBus(dest), TravJob(dest), TravJobDW(dest)})]]
  /\ n' = n + 1
  /\ IF di < Len(dests)
     THEN di' = di + 1 /\ pc' = "trav_solve"
     ELSE di' = 1 /\ pc' = "trav_zero"
  /\ UNCHANGED <<net, businesses, cfData, routesBridgesSJ, Bridges_by_Bus,
                 detVars>>

\* zeroNulls over ListFields(bridges, "*_TRAV_*")
zeroNulls(value) == IF IsNull(value) THEN RInt(0) ELSE value

PatTravAny == <<"*", "?", "TRAV", "?", "*">>

ZeroNullFields(attrs) ==
  [f \in DOMAIN attrs |->
     IF f \in ListFields(attrs, PatTravAny) THEN zeroNulls(attrs[f])
     ELSE attrs[f]]

ReplaceNulls ==
  /\ pc = "trav_zero"
  /\ bridges' =
       [i \in DOMAIN bridges |->
          [bridges[i] EXCEPT !.attrs = ZeroNullFields(@)]]
  /\ pc' = "trav_sums"
  /\ UNCHANGED <<net, businesses, di, travVars, detVars>>

\* sum fields: "+".join over the fields a wildcard lists
BusTravSum == <<"BUS", "TRAV", "SUM">>
JobTravSum == <<"JOB", "TRAV", "SUM">>
DistwJobTravSum == <<"DISTW", "JOB", "TRAV", "SUM">>

PatTravBus == <<"*", "?", "TRAV", "BUS", "*">>
\* mutant: the wildcard of the network sums, "*TRAV_JOB*"
PatTravJobLoose == <<"*", "TRAV", "JOB", "*">>
PatTravJob == <<"*", "?", "TRAV", "JOB">>
PatTravJobDW == <<"*", "?", "TRAV", "JOB", "DISTW">>

SetToSeq(S) == CHOOSE s \in [1 .. Cardinality(S) -> S] : Range(s) = S

\* AddField(name) then CalculateField(name, sum of the listed fields)
AddSumField(attrs, name, pat) ==
  LET withField == (name :> NULL) @@ attrs
      listed == SetToSeq(ListFields(withField, pat))
  IN  [withField EXCEPT ![name] =
         PySum([i \in 1 .. Len(listed) |-> withField[listed[i]]])]

SumFields(attrs) ==
  AddSumField(
    AddSumField(AddSumField(attrs, BusTravSum, PatTravBus),
                JobTravSum, PatTravJob),
    DistwJobTravSum, PatTravJobDW)

CalcSumFields ==
  /\ pc = "trav_sums"
  /\ bridges' =
       [i \in DOMAIN bridges |-> [bridges[i] EXCEPT !.attrs = SumFields(@)]]
  /\ pc' = "det_start"
  /\ UNCHANGED <<net, businesses, di, travVars, detVars>>

\* -------------------------------------------------------- detour script
\* GDB copy, row count over Bridges_by_Bus_*, iteration variables
\* mutant: the count is assigned, not added: only the last table counts
CountRowsLast(tables, names) ==
  IF names = <<>> THEN 0 ELSE Len(tables[names[Len(names)]])

RECURSIVE CountRows(_, _)
CountRows(tables, names) ==
  IF names = <<>> THEN 0
  ELSE Len(tables[Head(names)]) + CountRows(tables, Tail(names))

DetourStart ==
  /\ pc = "det_start"
  /\ totalRows' = CountRows(Bridges_by_Bus, dests)
  /\ x' = 0
  /\ di' = 1
  /\ pc' = "det_copy"
  /\ UNCHANGED <<net, businesses, bridges, travVars, detours, busPairs, pi,
                 key, z, failures, solves, Detours_by_Bridge, naLayer, restarted,
                 prior>>

\* copy of Bridges_by_Bus_<dest> with the No_Bridge_Time field added (the
\* metric fields added after the loop are carried as nulls from the start)
DetourRow(r) ==
  [No_Bridge_Time |-> NULL, DET_TIME |-> NULL, JOB_DET_TIME |-> NULL,
   DISTW_JOB_DET_TIME |-> NULL] @@ r

\* busDict: business -> list of its bridges, in first-appearance order;
\* flattened to the (detourBusID, removeBridgeNum) iteration order
RECURSIVE DictKeys(_, _)
DictKeys(rows, seen) ==
  IF rows = <<>> THEN <<>>
  ELSE IF Head(rows).Business_ID \in seen THEN DictKeys(Tail(rows), seen)
  ELSE <<Head(rows).Business_ID>>
       \o DictKeys(Tail(rows), seen \cup {Head(rows).Business_ID})

BusDictPairs(rows) ==
  LET ks == DictKeys(rows, {})
  IN  Flatten([i \in 1 .. Len(ks) |->
         LET mine == SelectSeq(rows, LAMBDA r : r.Business_ID = ks[i])
         IN  [j \in 1 .. Len(mine) |-> <<ks[i], mine[j].BRDG_NBR>>]])

DetourCopy ==
  /\ pc = "det_copy"
  /\ detours' =
       [detours EXCEPT ![dest] =
          [i \in 1 .. Len(Bridges_by_Bus[dest]) |->
             DetourRow(Bridges_by_Bus[dest][i])]]
  /\ busPairs' = BusDictPairs(detours'[dest])
  /\ pi' = 1
  /\ pc' = "det_loop"
  /\ UNCHANGED <<net, businesses, bridges, di, travVars, key, z, x, totalRows,
                 failures, solves, Detours_by_Bridge, naLayer, restarted,
                 prior>>

\* feature layers "businessDetour" and "removeBridge"
BusinessDetour(bus, id) == SelectSeq(bus, LAMBDA b : b.OBJECTID = id)
RemoveBridge(brs, nbr) == {br.node : br \in {c \in Range(brs) : c.BRDG_NBR = nbr}}

\* mutant: the layer of that name is kept, with the locations it holds
MakeClosestFacilityLayerKept(old) == old

\* MakeClosestFacilityLayer under overwriteOutput: the layer named
\* <dest>_CF is replaced by a new one with nothing loaded
MakeClosestFacilityLayer(old) == EmptyLayer

\* AddLocations appends to the sublayer it names
AddFacilities(layer, D) == [layer EXCEPT !.facilities = @ \cup D]
AddIncidents(layer, feats) ==
  [layer EXCEPT !.incidents = @ \o [i \in 1 .. Len(feats) |-> feats[i].node]]
AddPointBarriers(layer, at) == [layer EXCEPT !.barriers = @ \cup at]

\* the layer of one iteration after its three AddLocations calls
LoadedLayer(old, D, bus, id, brs, nbr) ==
  AddPointBarriers(
    AddIncidents(AddFacilities(MakeClosestFacilityLayer(old), D),
                 BusinessDetour(bus, id)),
    RemoveBridge(brs, nbr))

\* Solve: CFRoutes has one row per incident that has a route, in incident
\* order, each a least-cost route to a facility avoiding the barriers
SolveLayer(g, layer) ==
  LET inc == layer.incidents
      best(i) == BestOrNone(g, inc[i], layer.facilities, layer.barriers)
  IN  {CFRoutes(g, [i \in 1 .. Len(inc) |-> i], f) :
         f \in {h \in [1 .. Len(inc) -> UNION {best(i) : i \in 1 .. Len(inc)}] :
                  \A i \in 1 .. Len(inc) : h[i] \in best(i)}}

\* mutant: the facilities of every direction are loaded
BarredRoutesAnyDirection(g, D, bus, id, brs, nbr) ==
  LET inc == BusinessDetour(bus, id)
      barrier == RemoveBridge(brs, nbr)
  IN  IF inc = <<>> THEN {<<>>}
      ELSE {CFRoutes(g, <<1>>, <<p>>) :
              p \in BestOrNone(g, inc[1].node,
                               UNION {DestNodes(d) : d \in Dirs}, barrier)}

\* the solved layer's CFRoutes for the single incident, the bridge barred
BarredRoutes(g, D, bus, id, brs, nbr) ==
  SolveLayer(g, LoadedLayer(naLayer[dest], D, bus, id, brs, nbr))

\* mutant: the StopIteration branch stores a zero length
FirstRouteRowZero(routes, id) ==
  IF routes = <<>>
  THEN [IncidentID |-> id, Total_Length |-> RInt(0), SHAPE |-> <<>>]
  ELSE routes[1]

\* sc2.next() on the routes table, [detourBusID, None, None] on StopIteration
FirstRouteRow(routes, id) ==
  IF routes = <<>>
  THEN [IncidentID |-> id, Total_Length |-> NULL, SHAPE |-> <<>>]
  ELSE routes[1]

NoRouteRow(id) == [IncidentID |-> id, Total_Length |-> NULL, SHAPE |-> <<>>]

\* update cursor: rows whose "Business_ID,BRDG_NBR" equals key
UpdateDetours(rows, k, routeRow) ==
  [i \in 1 .. Len(rows) |->
     IF <<rows[i].Business_ID, rows[i].BRDG_NBR>> = k
     THEN [rows[i] EXCEPT !.No_Bridge_Time = routeRow.Total_Length,
                          !.SHAPE = routeRow.SHAPE]
     ELSE rows[i]]

Outcomes == {"ok", "list_raises", "cursor_raises"}

DetourIteration ==
  /\ pc = "det_loop"
  /\ pi <= Len(busPairs)
  /\ LET detourBusID == busPairs[pi][1]
         removeBridgeNum == busPairs[pi][2]
         newCF == NextCF(DOMAIN cfData)
     IN
     \E routes \in BarredRoutes(net, DestNodes(dest), businesses, detourBusID,
                                bridges, removeBridgeNum),
        out \in Outcomes :
       LET cf1 == (newCF :> routes) @@ cfData
           z1 == IF out = "list_raises" THEN z ELSE MaxOf(DOMAIN cf1)
           key1 == IF out = "ok" THEN <<detourBusID, removeBridgeNum>> ELSE key
           routeRow == IF out = "ok" THEN FirstRouteRow(cf1[z1], detourBusID)
                       ELSE NoRouteRow(detourBusID)
           nameError == key1 = UndefinedKey /\ detours[dest] # <<>>
           deleteFails == z1 = Undefined \/ z1 \notin DOMAIN cf1
       IN
       /\ out # "ok" => failures < MaxFailures
       /\ failures' = IF out = "ok" THEN failures ELSE failures + 1
       /\ solves' = Append(solves, <<dest, detourBusID, removeBridgeNum>>)
       /\ naLayer' =
            [naLayer EXCEPT ![dest] =
               LoadedLayer(@, DestNodes(dest), businesses, detourBusID,
                           bridges, removeBridgeNum)]
       /\ z' = z1
       /\ key' = key1
       /\ IF nameError
          THEN /\ pc' = "aborted"
               /\ cfData' = cf1
               /\ UNCHANGED <<detours, x, totalRows, pi>>
          ELSE /\ detours' = [detours EXCEPT ![dest] =
                                UpdateDetours(@, key1, routeRow)]
               /\ IF deleteFails
                  THEN /\ pc' = "aborted"
                       /\ cfData' = cf1
                       /\ UNCHANGED <<x, totalRows, pi>>
                  ELSE /\ cfData' = [k \in DOMAIN cf1 \ {z1} |-> cf1[k]]
                       /\ x' = x + 1
                       /\ totalRows' = totalRows - 1
                       /\ pi' = pi + 1
                       /\ pc' = "det_loop"
  /\ UNCHANGED <<net, businesses, bridges, di, n, routesBridgesSJ,
                 Bridges_by_Bus, FreqTable, busPairs, Detours_by_Bridge, restarted,
                 prior>>

\* mutant: the subtraction written the other way round
DetTimeExpReversed(r) == PySub(r.Base_Length, r.No_Bridge_Time)

\* DET_TIME, JOB_DET_TIME and DISTW_JOB_DET_TIME field calculations
DetTimeExp(r) == PySub(r.No_Bridge_Time, r.Base_Length)
JobDetTimeExp(detTime, r) == PyMul(detTime, r.Truck_Int)
DistwJobDetTimeExp(detTime, r) == PyMul(detTime, r.Truck_Int_DW)

DetourMetricsRow(r) ==
  LET dt == DetTimeExp(r)
  IN  [r EXCEPT !.DET_TIME = dt,
                !.JOB_DET_TIME = JobDetTimeExp(dt, r),
                !.DISTW_JOB_DET_TIME = DistwJobDetTimeExp(dt, r)]

DetourMetrics ==
  /\ pc = "det_loop"
  /\ pi > Len(busPairs)
  /\ detours' =
       [detours EXCEPT ![dest] =
          [i \in 1 .. Len(detours[dest]) |-> DetourMetricsRow(detours[dest][i])]]
  /\ IF di < Len(dests)
     THEN di' = di + 1 /\ pc' = "det_copy"
     ELSE di' = di /\ pc' = "det_merge"
  /\ UNCHANGED <<net, businesses, bridges, travVars, busPairs, pi, key, z, x,
                 totalRows, failures, solves, Detours_by_Bridge, naLayer, restarted,
                 prior>>

\* Merge of detours_*, Frequency by bridge, renamed sums joined to bridges
DetSum == <<"DET", "TIME", "SUM">>
JobDetSum == <<"JOB", "DET", "TIME", "SUM">>
DistwDetTimeSum == <<"DISTW", "JOB", "DET", "TIME", "SUM">>

DetoursMerged(tables) ==
  Flatten([i \in 1 .. Len(dests) |-> tables[dests[i]]])

DetourFreqTable(rows) ==
  LET ft == Frequency(rows, {"DET_TIME", "JOB_DET_TIME", "DISTW_JOB_DET_TIME"})
  IN  [b \in DOMAIN ft |->
         (<<"FREQUENCY">> :> ft[b].FREQUENCY)
         @@ (DetSum :> ft[b].sums["DET_TIME"])
         @@ (JobDetSum :> ft[b].sums["JOB_DET_TIME"])
         @@ (DistwDetTimeSum :> ft[b].sums["DISTW_JOB_DET_TIME"])]

DetourSummary ==
  /\ pc = "det_merge"
  /\ LET ft == DetourFreqTable(DetoursMerged(detours))
     IN  /\ Detours_by_Bridge' = ft
         /\ bridges' =
              [i \in DOMAIN bridges |->
                 [bridges[i] EXCEPT !.attrs =
                    JoinField(@, bridges[i].BRDG_NBR, ft,
                              {DetSum, JobDetSum, DistwDetTimeSum})]]
  /\ pc' = "done"
  /\ UNCHANGED <<net, businesses, di, travVars, detours, busPairs, pi, key, z,
                 x, totalRows, failures, solves, naLayer, restarted, prior>>

\* the detour script is started again after a run whose process ended
\* between two directions, with the earlier directions finished.  Line 60
\* copies the input GDB to the output name while
\* overwriteOutput still has the environment's default: the copy either
\* raises because the output exists, or replaces the output GDB by the
\* input; the third case is a start on the partial output itself.
StartModes == {"copy_raises", "copy_overwrites", "copy_of_output"}

\* the input GDB holds the traversal script's solution datasets only
InputDatasets(cf) == [k \in DOMAIN cf \cap (1 .. Len(dests)) |-> cf[k]]

Restart ==
  /\ failures < MaxFailures
  /\ failures' = failures + 1
  /\ pc = "det_copy"
  /\ di > 1
  /\ restarted' = TRUE
  /\ prior' =
       [d \in Dirs |->
          IF (CHOOSE i \in 1 .. Len(dests) : dests[i] = d) < di
          THEN detours[d] ELSE <<>>]
  /\ \E mode \in StartModes :
       CASE mode = "copy_raises" ->
              /\ pc' = "copy_failed"
              /\ UNCHANGED <<detours, cfData>>
         [] mode = "copy_overwrites" ->
              /\ pc' = "det_start"
              /\ detours' = [d \in Dirs |-> <<>>]
              /\ cfData' = InputDatasets(cfData)
         [] OTHER ->
              /\ pc' = "det_start"
              /\ UNCHANGED <<detours, cfData>>
  /\ di' = 1
  /\ busPairs' = <<>>
  /\ pi' = 1
  /\ key' = UndefinedKey
  /\ z' = Undefined
  /\ x' = 0
  /\ totalRows' = 0
  /\ solves' = <<>>
  /\ naLayer' = [d \in Dirs |-> EmptyLayer]
  /\ UNCHANGED <<net, businesses, bridges, n, routesBridgesSJ, Bridges_by_Bus,
                 FreqTable, Detours_by_Bridge>>

Next ==
  \/ CalcTruckInt
  \/ BaselineSolve
  \/ SpatialJoinStep
  \/ CreateBridgeTable
  \/ CalcDistance
  \/ CalcTruckIntDW
  \/ BridgeFrequencies
  \/ ReplaceNulls
  \/ CalcSumFields
  \/ DetourStart
  \/ DetourCopy
  \/ DetourIteration
  \/ DetourMetrics
  \/ DetourSummary
  \/ Restart

Spec == Init /\ [][Next]_vars

\* ------------------------------------------------------------ properties
DirIndex(d) == CHOOSE i \in 1 .. Len(dests) : dests[i] = d

InDetourScript == pc \in {"det_copy", "det_loop", "det_merge", "done", "aborted"}

\* the detour script has calculated the metric fields of detours_<d>
MetricsDone(d) ==
  \/ pc \in {"det_merge", "done"}
  \/ pc \in {"det_copy", "det_loop", "aborted"} /\ DirIndex(d) < di

\* the barred solve of a record's pair has been run
Solved(d, r) == <<d, r.Business_ID, r.BRDG_NBR>> \in Range(solves)

\* no route exists for the record's business with the record's bridge barred
CutOff(d, r) ==
  BestRoutes(net, BusNode[r.Business_ID], DestNodes(d),
             RemoveBridge(bridges, r.BRDG_NBR)) = {}

BaselineCost(d, b) ==
  PathCost(net, CHOOSE p \in BestRoutes(net, BusNode[b], DestNodes(d), {}) : TRUE)

\* C1: a record whose barred solve finds no route keeps a null
\* No_Bridge_Time and a null DET_TIME at every point of the run; the
\* unreachable outcome is never replaced by a number.
C1_UnreachableStaysNull ==
  \A d \in Dirs : \A r \in Range(detours[d]) :
    CutOff(d, r) => IsNull(r.No_Bridge_Time) /\ IsNull(r.DET_TIME)

C1_Witness ==
  /\ pc = "done"
  /\ \E d \in Dirs : \E r, q \in Range(detours[d]) :
       /\ CutOff(d, r) /\ Solved(d, r) /\ IsNull(r.DET_TIME)
       /\ ~IsNull(q.No_Bridge_Time) /\ ~IsNull(q.DET_TIME)

\* C2: once a direction's metrics are calculated, every record with a
\* barred cost and a baseline cost has DET_TIME = No_Bridge_Time -
\* Base_Length, and Base_Length is the baseline cost of the record's own
\* business in that direction.
C2_DetTimeIsDifference ==
  \A d \in Dirs : MetricsDone(d) =>
    \A r \in Range(detours[d]) :
      (~IsNull(r.No_Bridge_Time) /\ ~IsNull(r.Base_Length)) =>
        /\ r.DET_TIME = RSub(r.No_Bridge_Time, r.Base_Length)
        /\ r.Base_Length = RInt(BaselineCost(d, r.Business_ID))

\* line 1-2-3 with costs 1, 1 and the extra edge 1-3 of cost 5: barring the
\* bridge on vertex 2 gives cost 5 and a detour of 3
C2_Witness ==
  /\ pc = "done"
  /\ net = [edges |-> {{1, 2}, {2, 3}, {1, 3}}, skip |-> 5]
  /\ \E r \in Range(detours["E"]) :
       /\ r.Business_ID = 1 /\ r.BRDG_NBR = "B1"
       /\ r.Base_Length = RInt(2)
       /\ r.No_Bridge_Time = RInt(5)
       /\ r.DET_TIME = RInt(3)

\* C3: a present barred cost is never below the record's baseline cost, and
\* the calculated DET_TIME of such a record is >= 0.
C3_DetourNonNegative ==
  \A d \in Dirs : \A r \in Range(detours[d]) :
    ~IsNull(r.No_Bridge_Time) =>
      /\ RLeq(r.Base_Length, r.No_Bridge_Time)
      /\ MetricsDone(d) => (~IsNull(r.DET_TIME) /\ r.DET_TIME[1] >= 0)

C3_Witness ==
  /\ pc = "done"
  /\ \E d \in Dirs : \E r, q \in Range(detours[d]) :
       /\ ~IsNull(r.DET_TIME) /\ r.DET_TIME[1] > 0
       /\ ~IsNull(q.DET_TIME) /\ q.DET_TIME[1] = 0

\* C4: a failure while reading the barred route of one record never aborts
\* the run.
C4_FailureNeverAborts == pc # "aborted"

\* the traversal script has finished (nulls replaced, sum fields calculated)
TraversalDone == pc \in {"det_start"} \/ InDetourScript

RowsOf(rows, nbr) == SelectSeq(rows, LAMBDA r : r.BRDG_NBR = nbr)

DirField(d, kind) ==
  CASE kind = "BUS" -> TravBus(d)
    [] kind = "JOB" -> TravJob(d)
    [] OTHER -> TravJobDW(d)

RECURSIVE DirTotal(_, _, _)
DirTotal(attrs, kind, i) ==
  IF i > Len(dests) THEN RInt(0)
  ELSE RAdd(attrs[DirField(dests[i], kind)], DirTotal(attrs, kind, i + 1))

\* C5: for every bridge each grand total is the sum over the directions of
\* the per-direction value of the same metric, and a direction in which the
\* bridge has no record contributes zero.
C5_TotalsAreDirectionSums ==
  TraversalDone =>
    \A i \in DOMAIN bridges :
      LET a == bridges[i].attrs
      IN  /\ a[BusTravSum] = DirTotal(a, "BUS", 1)
          /\ a[JobTravSum] = DirTotal(a, "JOB", 1)
          /\ a[DistwJobTravSum] = DirTotal(a, "DISTW", 1)
          /\ \A d \in Dirs :
               RowsOf(Bridges_by_Bus[d], bridges[i].BRDG_NBR) = <<>> =>
                 /\ a[TravBus(d)] = RInt(0)
                 /\ a[TravJob(d)] = RInt(0)
                 /\ a[TravJobDW(d)] = RInt(0)

C5_Witness ==
  /\ pc = "det_start"
  /\ \E i \in DOMAIN bridges : \E d, e \in Dirs :
       LET a == bridges[i].attrs
       IN  /\ RowsOf(Bridges_by_Bus[d], bridges[i].BRDG_NBR) = <<>>
           /\ a[TravBus(e)][1] > 0 /\ a[TravJobDW(e)][1] > 0
           /\ a[JobTravSum] # a[DistwJobTravSum]
           /\ a[BusTravSum] = a[TravBus(e)]

\* C6: at the end of the run a bridge that no record names has 0, never
\* null, in every traversal field, every traversal sum and every detour sum.
C6_ZeroImpactBridgeIsZero ==
  pc = "done" =>
    \A i \in DOMAIN bridges :
      (\A d \in Dirs : RowsOf(detours[d], bridges[i].BRDG_NBR) = <<>>) =>
        /\ {DetSum, JobDetSum, DistwDetTimeSum, BusTravSum, JobTravSum,
            DistwJobTravSum} \subseteq DOMAIN bridges[i].attrs
        /\ \A f \in DOMAIN bridges[i].attrs : bridges[i].attrs[f] = RInt(0)

NoDup(s) == \A i, j \in 1 .. Len(s) : i # j => s[i] # s[j]
PairsOf(rows) == [i \in 1 .. Len(rows) |-> <<rows[i].Business_ID, rows[i].BRDG_NBR>>]
NodeOfBridge(nbr) == (CHOOSE c \in Range(bridges) : c.BRDG_NBR = nbr).node

\* C7: per direction no (business, bridge) pair has two records, the list
\* of pairs to bar has no duplicate and no barred solve is run twice.
C7_OneRecordPerPair ==
  /\ \A d \in Dirs : NoDup(PairsOf(Bridges_by_Bus[d])) /\ NoDup(PairsOf(detours[d]))
  /\ NoDup(busPairs)
  /\ NoDup(solves)

\* a bridge on an inner vertex of the baseline route touches two traversed
\* segments of that route
C7_Witness ==
  /\ pc = "done"
  /\ \E d \in Dirs : \E r \in Range(Bridges_by_Bus[d]) :
       /\ \E k \in 2 .. Len(r.SHAPE) - 1 : r.SHAPE[k] = NodeOfBridge(r.BRDG_NBR)
       /\ Solved(d, r)

\* baseline routes of direction d, once solved
BaselineSolved(d) == DirIndex(d) \in DOMAIN cfData
RoutesOf(d, b) ==
  SelectSeq(cfData[DirIndex(d)], LAMBDA r : r.IncidentID = b)
Crosses(d, b, v) == \E r \in Range(RoutesOf(d, b)) : v \in SeqNodes(r.SHAPE)
CrossesNone(d, b) == \A c \in Range(bridges) : ~Crosses(d, b, c.node)

\* C8: a business whose baseline route of a direction crosses no bridge has
\* no row in that direction's tables, no barred solve, and is not counted
\* in any bridge's per-direction count.
C8_NoBridgeNoRecord ==
  \A d \in Dirs : BaselineSolved(d) =>
    /\ \A b \in BusIds : CrossesNone(d, b) =>
         /\ \A r \in Range(Bridges_by_Bus[d]) \cup Range(detours[d]) :
              r.Business_ID # b
         /\ \A t \in Range(solves) : ~(t[1] = d /\ t[2] = b)
    /\ \A c \in Range(bridges) :
         TravBus(d) \in DOMAIN c.attrs =>
           zeroNulls(c.attrs[TravBus(d)]) =
             RInt(Cardinality({b \in BusIds : Crosses(d, b, c.node)}))

C8_Witness ==
  /\ pc = "done"
  /\ \E d \in Dirs : \E b, b2 \in BusIds :
       /\ RoutesOf(d, b) # <<>> /\ CrossesNone(d, b)
       /\ \E r \in Range(detours[d]) : r.Business_ID = b2

\* C9: for a record with a detour time and a positive distance the job
\* detour time, the distance-weighted intensity and the distance-weighted
\* job detour time follow the three formulas, with the business's
\* per-direction truck intensity.
C9_WeightedMetrics ==
  \A d \in Dirs : MetricsDone(d) =>
    \A r \in Range(detours[d]) :
      (~IsNull(r.DET_TIME) /\ ~IsNull(r.BUS_TO_BRIDGE_MI)
       /\ r.BUS_TO_BRIDGE_MI[1] > 0) =>
        /\ r.Truck_Int =
             RDiv(businesses[r.Business_ID].Truck_Int_Raw, RInt(Len(dests)))
        /\ r.JOB_DET_TIME = RMul(r.DET_TIME, r.Truck_Int)
        /\ r.Truck_Int_DW =
             RDiv(RMul(r.Truck_Int, RInt(cutoff)),
                  RPow(r.BUS_TO_BRIDGE_MI, power))
        /\ r.DISTW_JOB_DET_TIME = RMul(r.DET_TIME, r.Truck_Int_DW)

\* truck intensity 10, detour time 3, distance 2 miles: 30, 5 and 15
C9_Witness ==
  /\ pc = "done"
  /\ \E d \in Dirs : \E r \in Range(detours[d]) :
       /\ r.Truck_Int = RInt(10) /\ r.DET_TIME = RInt(3)
       /\ r.BUS_TO_BRIDGE_MI = RInt(2)
       /\ r.JOB_DET_TIME = RInt(30)
       /\ r.Truck_Int_DW = RInt(5)
       /\ r.DISTW_JOB_DET_TIME = RInt(15)

\* Truck_Int_DW of direction d has been calculated
WeightDone(d) ==
  \/ TraversalDone
  \/ pc \in {"trav_zero", "trav_sums"}
  \/ DirIndex(d) < di
  \/ DirIndex(d) = di /\ pc = "trav_freq"

\* C10: a record whose business lies on its bridge (distance zero) has an
\* unknown (null) distance-weighted intensity and distance-weighted detour
\* metric; every other record of the table keeps its value, and the run is
\* never aborted on that account.
C10_ZeroDistanceIsUnknown ==
  /\ \A d \in Dirs : WeightDone(d) =>
       \A r \in Range(Bridges_by_Bus[d]) :
         IF r.Business_X = r.Bridge_X
         THEN IsNull(r.Truck_Int_DW)
         ELSE r.Truck_Int_DW =
                RDiv(RMul(r.Truck_Int, RInt(cutoff)),
                     RPow(r.BUS_TO_BRIDGE_MI, power))
  /\ \A d \in Dirs : \A r \in Range(detours[d]) :
       r.Business_X = r.Bridge_X =>
         IsNull(r.Truck_Int_DW) /\ IsNull(r.DISTW_JOB_DET_TIME)
  /\ pc = "aborted" => failures > 0

C10_Witness ==
  /\ pc = "done"
  /\ \E d \in Dirs : \E r, q \in Range(detours[d]) :
       /\ r.Business_X = r.Bridge_X /\ r.BUS_TO_BRIDGE_MI = RInt(0)
       /\ IsNull(r.Truck_Int_DW)
       /\ ~IsNull(q.Truck_Int_DW) /\ ~IsNull(q.DISTW_JOB_DET_TIME)

\* C11: every barred solve for a record (b, br, d) runs on the unmodified
\* network with exactly one barrier, the bridge br, and the single origin b,
\* with the facilities of d: nothing loaded for an earlier solve is still
\* in the layer, a stored barred cost is the cost of a least-cost route of
\* exactly that solve, a completed iteration leaves no solution dataset
\* behind, and no solve changes the network, the businesses or the bridges
C11_LayerOfLastSolve ==
  (InDetourScript /\ solves # <<>>) =>
    LET s == solves[Len(solves)]
    IN  naLayer[s[1]] =
          [facilities |-> DestNodes(s[1]),
           incidents |-> <<BusNode[s[2]]>>,
           barriers |-> {NodeOfBridge(s[3])}]

C11_CostOfOwnSolve ==
  \A d \in Dirs : \A r \in Range(detours[d]) :
    ~IsNull(r.No_Bridge_Time) =>
      \E p \in BestRoutes(net, BusNode[r.Business_ID], DestNodes(d),
                          {NodeOfBridge(r.BRDG_NBR)}) :
        r.No_Bridge_Time = RInt(PathCost(net, p))

C11_SolveStep ==
  Len(solves') > Len(solves) =>
    /\ net' = net
    /\ businesses' = businesses
    /\ bridges' = bridges
    /\ pc' = "det_loop" => DOMAIN cfData' = DOMAIN cfData

C11_EachSolveIsFresh ==
  /\ [](C11_LayerOfLastSolve /\ C11_CostOfOwnSolve)
  /\ [][C11_SolveStep]_vars

\* two barred solves have been run and the later one stored a cost
C11_Witness ==
  /\ Len(solves) >= 2
  /\ pc = "det_loop"
  /\ LET s == solves[Len(solves)]
     IN  \E r \in Range(detours[s[1]]) :
           /\ r.Business_ID = s[2] /\ r.BRDG_NBR = s[3]
           /\ ~IsNull(r.No_Bridge_Time)

\* Bellman-Ford: for every vertex that a walk of at most k segments from o
\* reaches, the least total cost of such a walk, as <<vertex, cost>>
RECURSIVE LeastWalk(_, _, _)
LeastWalk(g, o, k) ==
  IF k = 0 THEN {<<o, 0>>}
  ELSE LET prev == LeastWalk(g, o, k - 1)
           cand == prev \cup UNION {{<<w, e[2] + EdgeCost(g, {e[1], w})>> :
                                       w \in {v \in Nodes : {e[1], v} \in g.edges}}
                                    : e \in prev}
       IN  {e \in cand : \A f \in cand : f[1] = e[1] => e[2] <= f[2]}

\* per reachable destination of direction d, the least cost of a walk to
\* it from business b: no path to that destination costs less
AltCosts(d, b) ==
  {e[2] : e \in {f \in LeastWalk(net, BusNode[b], NumNodes) :
                   f[1] \in DestNodes(d)}}

\* C12: for every network, business and direction the baseline cost (nothing
\* barred) is the minimum, over the destinations of the direction and all
\* paths to them, of the path's total cost.  The routes of a baseline solve
\* have the cost of some such path and no path to any destination of the
\* direction costs less, a business has no route only when no such path
\* exists; the solved routes are never changed afterwards, and every stored
\* Base_Length is the Total_Length of its business's solved route.
C12_SolveIsMinimum ==
  pc = "trav_sjoin" =>
    \A b \in BusIds :
      LET alt == AltCosts(dest, b)
      IN  /\ (RoutesOf(dest, b) = <<>>) <=> (alt = {})
          /\ \A r \in Range(RoutesOf(dest, b)) :
               /\ \A c \in alt : RLeq(r.Total_Length, RInt(c))
               /\ \E c \in alt : r.Total_Length = RInt(c)

C12_StoredIsSolved ==
  \A d \in Dirs :
    \A r \in Range(Bridges_by_Bus[d]) \cup Range(detours[d]) :
      /\ BaselineSolved(d)
      /\ \E q \in Range(RoutesOf(d, r.Business_ID)) :
           r.Base_Length = q.Total_Length

C12_SolvedIsKept ==
  \A k \in DOMAIN cfData \cap (1 .. Len(dests)) :
    k \in DOMAIN cfData' /\ cfData'[k] = cfData[k]

C13_FinishedDirectionIsSkipped ==
  restarted =>
    \A d \in Dirs :
      prior[d] # <<>> =>
        /\ detours[d] = prior[d]
        /\ \A i \in 1 .. Len(solves) : solves[i][1] # d

\* C14: an iteration of the detour loop for the pair (b, br) writes only the
\* record whose business is b and whose bridge is br: the barred cost of
\* every other record, of this and of every other direction, is the same
\* after the iteration as before it, also when reading the route result
\* raised an exception.
C14_IterationStep ==
  (pc = "det_loop" /\ Len(solves') > Len(solves)) =>
    /\ \A d \in Dirs \ {dest} : detours'[d] = detours[d]
    /\ \A i \in 1 .. Len(detours[dest]) :
         <<detours[dest][i].Business_ID, detours[dest][i].BRDG_NBR>>
           # busPairs[pi] =>
             detours'[dest][i].No_Bridge_Time = detours[dest][i].No_Bridge_Time

C14_OnlyOwnRecordWritten == [][C14_IterationStep]_vars

\* the rows of all directions' Bridges_by_Bus tables
AllBridgeRows == Flatten([i \in 1 .. Len(dests) |-> Bridges_by_Bus[dests[i]]])

SolvesOf(d, r) ==
  {i \in 1 .. Len(solves) : solves[i] = <<d, r.Business_ID, r.BRDG_NBR>>}

\* C15: the detour step runs exactly one barred solve for each row of each
\* direction's Bridges_by_Bus table: at every point of a run the completed
\* rows plus the reported remaining rows equal the number of rows of all the
\* tables, the completed rows are the solves whose iteration came to its
\* end, the remaining count is never below 0, and when the last direction
\* is finished it is 0 and every row has had exactly one solve.
C15_ProgressCounters ==
  pc \in {"det_copy", "det_loop", "det_merge", "done", "aborted"} =>
    /\ x + totalRows = Len(AllBridgeRows)
    /\ totalRows >= 0
    /\ x >= 0
    /\ x = IF pc = "aborted" THEN Len(solves) - 1 ELSE Len(solves)
    /\ \A d \in Dirs : \A r \in Range(Bridges_by_Bus[d]) :
         Cardinality(SolvesOf(d, r)) <= 1
    /\ pc \in {"det_merge", "done"} =>
         /\ totalRows = 0
         /\ \A d \in Dirs : \A r \in Range(Bridges_by_Bus[d]) :
              Cardinality(SolvesOf(d, r)) = 1

\* a finished run that had rows to bar in both directions
C15_Witness ==
  /\ pc = "done"
  /\ totalRows = 0
  /\ \A d \in Dirs : Bridges_by_Bus[d] # <<>>
  /\ x = Len(AllBridgeRows)
====
